---- MODULE Spec2Model ----
(***************************************************************************)
(* State-machine model of vdiclient.py: the VDIClient object, its          *)
(* authenticate / get_vms / connect_to_vm methods and the cluster API the  *)
(* methods talk to.  The cluster API, the viewer and random.shuffle are    *)
(* the environment: their answers are drawn nondeterministically.          *)
(***************************************************************************)
EXTENDS Integers, Sequences, FiniteSets, TLC

VARIABLES
    hosts,            \* self.hosts: host-set name -> settings record
    current_hostset,  \* self.current_hostset
    proxmox,          \* self.proxmox: None or the API handle
    guest_type,       \* self.guest_type
    spiceproxy_conv,  \* self.spiceproxy_conv: lookup key -> replacement host:port
    addl_params,      \* self.addl_params: None or the extra viewer parameters
    pc,               \* position of the thread of control
    idx,              \* authenticate: 1-based position of the for loop in the pool
    attempts,         \* authenticate: log of the loop iterations of the current call
    authRet,          \* authenticate: how the last call ended
    nodesReply,       \* get_vms: what cluster.resources.get(type='node') answered
    vmsReply,         \* get_vms: what cluster.resources.get(type='vm') answered
    vmsRet,           \* get_vms: how the last call ended
    vm,               \* connect_to_vm: the guest record passed in
    i,                \* connect_to_vm: iterations of the polling loop begun
    startCmds,        \* connect_to_vm: start commands posted in the current call
    startKind,        \* connect_to_vm: API sub-path of the posted start command
    statusQueries,    \* connect_to_vm: task-status queries made in the current call
    queryFails,       \* connect_to_vm: task-status queries that raised
    lastSample,       \* connect_to_vm: outcome of the latest polling iteration
    tickets,          \* connect_to_vm: spiceproxy tickets requested in the current call
    launched,         \* connect_to_vm: viewer processes launched in the current call
    spiceconfig,      \* connect_to_vm: the ticket the spiceproxy post answered
    config_string,    \* connect_to_vm: the text written to the viewer's stdin
    connRet,          \* connect_to_vm: how the last call ended
    config,           \* main: the configuration file load_config reads
    mainRet,          \* main: its return value
    caller,           \* who called connect_to_vm: main (auto-connect) or main_menu
    selected_idx,     \* main_menu: the selection, 0-based
    authCalls,        \* main: calls of authenticate so far
    autoConnects,     \* main: auto-connect calls of connect_to_vm so far
    menuStarts,       \* main: times curses.wrapper(main_menu, client) was entered
    getch             \* main_menu: what the last stdscr.getch() returned (key)

authVars == <<idx, attempts, authRet>>
dirVars  == <<nodesReply, vmsReply, vmsRet>>
connVars == <<vm, i, startCmds, startKind, statusQueries, queryFails, lastSample,
              tickets, launched, spiceconfig, config_string, connRet>>
viewVars == <<spiceproxy_conv, addl_params>>
mainVars == <<config, mainRet, caller, selected_idx, authCalls, autoConnects, menuStarts, getch>>
vars == <<hosts, current_hostset, proxmox, guest_type, viewVars,
          pc, authVars, dirVars, connVars, mainVars>>

(***************************************************************************)
(* Python values                                                           *)
(***************************************************************************)
None == [none |-> TRUE]
\* None in a place whose other values are str.
NoneStr == "None"

\* How a call ended: not yet, by return, or by an exception leaving it.
NoRet == [kind |-> "none"]
Return(v) == [kind |-> "return", value |-> v]
Raise(e) == [kind |-> "raise", exc |-> e]

\* An exception: its class and str(e), kept as the pieces an f-string glues.
Exc(type, msg) == [type |-> type, msg |-> msg]

\* Exceptions raised by the libraries (proxmoxer, requests), by kind.
LibExc(result) ==
    CASE result = "auth" -> Exc("AuthenticationError", <<"auth rejected">>)
      [] result = "net" -> Exc("ConnectionError", <<"unreachable">>)
      [] OTHER -> Exc("ResourceException", <<"api error">>)

(***************************************************************************)
(* Bounds of the model                                                     *)
(***************************************************************************)
MaxPool == 3

(***************************************************************************)
(* VDIClient.authenticate                                                  *)
(***************************************************************************)
PoolEntries ==
    { [host |-> "pve1", port |-> 8006],
      [host |-> "pve2", port |-> 8006],
      [host |-> "pve3", port |-> 443],
      [host |-> "pve4", port |-> 8006] }

Range(s) == { s[k] : k \in DOMAIN s }

\* Host pools as load_config builds them: one entry per distinct host key.
HostPools ==
    UNION { { p \in [1..n -> PoolEntries] : \A a, b \in 1..n : a # b => p[a].host # p[b].host }
            : n \in 0..MaxPool }

HostSet(pool) ==
    [ hostpool |-> pool, backend |-> "pve", user |-> "vdi",
      token_name |-> "tok", token_value |-> "secret",
      totp |-> FALSE, verify_ssl |-> TRUE, auto_vmid |-> None ]

\* random.shuffle: any rearrangement of the list.
Shuffles_WithRepeats(pool) == [1..Len(pool) -> Range(pool)]

Shuffles(pool) ==
    { [k \in 1..Len(pool) |-> pool[f[k]]] : f \in Permutations(1..Len(pool)) }

hostpool == hosts[current_hostset].hostpool

\* The handle ProxmoxAPI(host, ..., port=port) constructs.
ProxmoxAPI(hostinfo) == [host |-> hostinfo.host, port |-> hostinfo.port]

\* What one pass through the try block can meet: the constructor or the test
\* query raises (credential rejection, network failure, anything else), or
\* the test query answers.
AttemptOutcomes ==
    { [stage |-> "query", result |-> "ok"] } \cup
    [stage : {"ctor", "query"}, result : {"auth", "net", "other"}]

\* The except clauses of the loop body.
Handler_NoShortCircuit(result) ==
    CASE result = "ok" -> "return"
      [] result = "auth" -> "continue"
      [] result = "net" -> "continue"
      [] OTHER -> "propagate"

Handler_NoFailover(result) ==
    CASE result = "ok" -> "return"
      [] result = "auth" -> "raise"
      [] result = "net" -> "propagate"
      [] OTHER -> "propagate"

Handler(result) ==
    CASE result = "ok" -> "return"
      [] result = "auth" -> "raise"
      [] result = "net" -> "continue"
      [] OTHER -> "propagate"

AuthFailedError(e) == Exc("ConnectionError", <<"Authentication failed: ">> \o e.msg)
PoolExhaustedError == Exc("ConnectionError", <<"Unable to connect to any host in the pool">>)

\* authenticate is entered: the pool is shuffled in place.
AuthEnter ==
    /\ \E p \in Shuffles(hostpool) :
          hosts' = [hosts EXCEPT ![current_hostset].hostpool = p]
    /\ pc' = "auth_loop"
    /\ idx' = 1
    /\ attempts' = <<>>
    /\ authRet' = NoRet
    /\ UNCHANGED <<current_hostset, proxmox, guest_type, viewVars, dirVars, connVars>>

\* A call of authenticate, the first or a later one.
AuthCall ==
    /\ pc \in {"idle", "auth_returned", "auth_raised"}
    /\ AuthEnter
    /\ UNCHANGED mainVars

\* One iteration of the for loop: construct the handle, run the test query.
AuthAttempt ==
    /\ pc = "auth_loop"
    /\ idx <= Len(hostpool)
    /\ \E o \in AttemptOutcomes :
          LET hostinfo == hostpool[idx]
              h == Handler(o.result)
          IN  /\ attempts' = Append(attempts, [entry |-> hostinfo, outcome |-> o])
              /\ proxmox' = IF o.stage = "ctor" THEN proxmox ELSE ProxmoxAPI(hostinfo)
              /\ CASE h = "return" ->
                        /\ pc' = "auth_returned"
                        /\ authRet' = Return(TRUE)
                        /\ idx' = idx
                   [] h = "raise" ->
                        /\ pc' = "auth_raised"
                        /\ authRet' = Raise(AuthFailedError(LibExc(o.result)))
                        /\ idx' = idx
                   [] h = "continue" ->
                        /\ pc' = "auth_loop"
                        /\ authRet' = authRet
                        /\ idx' = idx + 1
                   [] OTHER ->
                        /\ pc' = "auth_raised"
                        /\ authRet' = Raise(LibExc(o.result))
                        /\ idx' = idx
    /\ UNCHANGED mainVars
    /\ UNCHANGED <<hosts, current_hostset, guest_type, viewVars, dirVars, connVars>>

\* The loop ran out of entries.
AuthExhausted ==
    /\ pc = "auth_loop"
    /\ idx > Len(hostpool)
    /\ pc' = "auth_raised"
    /\ authRet' = Raise(PoolExhaustedError)
    /\ UNCHANGED mainVars
    /\ UNCHANGED <<hosts, current_hostset, proxmox, guest_type, viewVars, idx, attempts,
                   dirVars, connVars>>

(***************************************************************************)
(* VDIClient.get_vms                                                       *)
(***************************************************************************)
MaxGuests == 2

\* A str is the sequence of its code points; < on str compares them
\* lexicographically.
RECURSIVE StrLess(_, _)
StrLess(a, b) ==
    IF b = <<>> THEN FALSE
    ELSE IF a = <<>> THEN TRUE
    ELSE IF a[1] # b[1] THEN a[1] < b[1]
    ELSE StrLess(Tail(a), Tail(b))

\* A cluster.resources.get call answers with a list or raises.
Fetched(data) == [ok |-> TRUE, data |-> data]
FetchFailed == [ok |-> FALSE, exc |-> LibExc("net")]

\* Node inventories: pve1 online or offline, pve2 online or not listed, or
\* a record without the status field.
NodeInventories ==
    { <<[node |-> "pve1", status |-> s1]>> : s1 \in {"online", "offline"} } \cup
    { <<[node |-> "pve2", status |-> "online"], [node |-> "pve1", status |-> s1]>>
         : s1 \in {"online", "offline"} } \cup
    { <<[node |-> "pve1"]>> }

NodeFetches == { Fetched(n) : n \in NodeInventories } \cup { FetchFailed }

GuestNames == { <<1>>, <<1, 2>>, <<2>> }
GuestNodes == { "pve1", "pve2" }

\* The guest records the cluster can list under the id vmid: the template
\* field is absent, 0 or 1, the lock field is optional, and a record may come
\* without its name.
GuestShapes(vmid) ==
    LET qemu(n, h) == [vmid |-> vmid, name |-> n, node |-> h,
                       type |-> "qemu", status |-> "stopped"]
        lxc(n, h) == [vmid |-> vmid, name |-> n, node |-> h,
                      type |-> "lxc", status |-> "running", lock |-> "suspended"]
        plain == { qemu(n, h) : n \in GuestNames, h \in GuestNodes } \cup
                 { lxc(n, h) : n \in GuestNames, h \in GuestNodes }
    IN  plain \cup
        { [f \in DOMAIN g \cup {"template"} |-> IF f = "template" THEN t ELSE g[f]]
             : g \in plain, t \in {0, 1} } \cup
        { [vmid |-> vmid, node |-> "pve1", type |-> "qemu", status |-> "stopped"] }

\* Guest inventories: up to MaxGuests records with cluster-wide distinct ids.
RECURSIVE GuestInventoriesOf(_)
GuestInventoriesOf(n) ==
    IF n = 0 THEN { <<>> }
    ELSE { Append(inv, g) : inv \in GuestInventoriesOf(n - 1), g \in GuestShapes(100 + n) }

GuestInventories == UNION { GuestInventoriesOf(n) : n \in 0..MaxGuests }

VmFetches == { Fetched(v) : v \in GuestInventories } \cup { FetchFailed }

GuestTypes == { "both", "qemu", "lxc" }

KeyError(k) == Exc("KeyError", <<k>>)

\* d[k] for each k of keys, in order: the first missing key raises.
RECURSIVE MissingKey(_, _)
MissingKey(d, keys) ==
    IF keys = <<>> THEN None
    ELSE IF Head(keys) \notin DOMAIN d THEN KeyError(Head(keys))
    ELSE MissingKey(d, Tail(keys))

\* The first loop: the names of the nodes whose status is "online".
RECURSIVE OnlineNodes(_, _, _)
OnlineNodes(nodes, k, online_nodes) ==
    IF k > Len(nodes) THEN Return(online_nodes)
    ELSE LET node == nodes[k] IN
         IF "status" \notin DOMAIN node THEN Raise(KeyError("status"))
         ELSE IF node.status # "online" THEN OnlineNodes(nodes, k + 1, online_nodes)
         ELSE IF "node" \notin DOMAIN node THEN Raise(KeyError("node"))
         ELSE OnlineNodes(nodes, k + 1, Append(online_nodes, node.node))

\* The record appended for a retained guest.
Project_DropLock(g) ==
    [ vmid |-> g.vmid, name |-> g.name, node |-> g.node, status |-> g.status,
      type |-> g.type, lock |-> NoneStr ]

Project(g) ==
    [ vmid |-> g.vmid, name |-> g.name, node |-> g.node, status |-> g.status,
      type |-> g.type, lock |-> IF "lock" \in DOMAIN g THEN g.lock ELSE NoneStr ]

\* The body of the second loop for one guest: skip it, append its record, or
\* raise on a field that is not there.
VmStep_NoTemplateCheck(g, online_nodes, gt) ==
    IF "node" \notin DOMAIN g THEN Raise(KeyError("node"))
    ELSE IF g.node \notin Range(online_nodes) THEN [kind |-> "skip"]
    ELSE IF gt # "both" /\ "type" \notin DOMAIN g THEN Raise(KeyError("type"))
    ELSE IF gt = "both" \/ gt = g.type
         THEN LET e == MissingKey(g, <<"vmid", "name", "node", "status", "type">>)
              IN  IF e # None THEN Raise(e) ELSE Return(Project(g))
         ELSE [kind |-> "skip"]

VmStep(g, online_nodes, gt) ==
    IF "node" \notin DOMAIN g THEN Raise(KeyError("node"))
    ELSE IF g.node \notin Range(online_nodes) THEN [kind |-> "skip"]
    ELSE IF "template" \in DOMAIN g /\ g.template # 0 THEN [kind |-> "skip"]
    ELSE IF gt # "both" /\ "type" \notin DOMAIN g THEN Raise(KeyError("type"))
    ELSE IF gt = "both" \/ gt = g.type
         THEN LET e == MissingKey(g, <<"vmid", "name", "node", "status", "type">>)
              IN  IF e # None THEN Raise(e) ELSE Return(Project(g))
         ELSE [kind |-> "skip"]

\* The second loop.
RECURSIVE CollectVms(_, _, _, _, _)
CollectVms(guests, k, online_nodes, gt, vms) ==
    IF k > Len(guests) THEN Return(vms)
    ELSE LET r == VmStep(guests[k], online_nodes, gt) IN
         IF r.kind = "raise" THEN r
         ELSE IF r.kind = "skip" THEN CollectVms(guests, k + 1, online_nodes, gt, vms)
         ELSE CollectVms(guests, k + 1, online_nodes, gt, Append(vms, r.value))

\* sorted(vms, key=lambda x: x['name']): stable, ascending by name.
RECURSIVE InsertByName(_, _)
InsertByName(s, x) ==
    IF s = <<>> THEN <<x>>
    ELSE IF StrLess(x.name, s[Len(s)].name)
         THEN Append(InsertByName(SubSeq(s, 1, Len(s) - 1), x), s[Len(s)])
         ELSE Append(s, x)

sorted_Unsorted(vms) == vms

RECURSIVE sorted(_)
sorted(vms) ==
    IF vms = <<>> THEN <<>>
    ELSE InsertByName(sorted(SubSeq(vms, 1, Len(vms) - 1)), vms[Len(vms)])

GetVmsError(e) == Exc("RuntimeError", <<"Failed to get VMs: ">> \o e.msg)

\* A get_vms whose except clause answers with an empty list.
get_vms_Swallow(nodes, guests, gt) ==
    IF ~nodes.ok THEN Return(<<>>)
    ELSE LET on == OnlineNodes(nodes.data, 1, <<>>) IN
         IF on.kind = "raise" THEN Return(<<>>)
         ELSE IF ~guests.ok THEN Return(<<>>)
         ELSE LET c == CollectVms(guests.data, 1, on.value, gt, <<>>) IN
              IF c.kind = "raise" THEN Return(<<>>)
              ELSE Return(sorted(c.value))

\* get_vms as a function of the two answers and self.guest_type.
get_vms(nodes, guests, gt) ==
    IF ~nodes.ok THEN Raise(GetVmsError(nodes.exc))
    ELSE LET on == OnlineNodes(nodes.data, 1, <<>>) IN
         IF on.kind = "raise" THEN Raise(GetVmsError(on.exc))
         ELSE IF ~guests.ok THEN Raise(GetVmsError(guests.exc))
         ELSE LET c == CollectVms(guests.data, 1, on.value, gt, <<>>) IN
              IF c.kind = "raise" THEN Raise(GetVmsError(c.exc))
              ELSE Return(sorted(c.value))

\* One call of get_vms on an authenticated client.
GetVms ==
    /\ pc = "idle"
    /\ proxmox # None
    /\ \E nr \in NodeFetches, vr \in VmFetches :
          /\ nodesReply' = nr
          /\ vmsReply' = vr
          /\ vmsRet' = get_vms(nr, vr, guest_type)
    /\ pc' = "dir_done"
    /\ UNCHANGED mainVars
    /\ UNCHANGED <<hosts, current_hostset, proxmox, guest_type, viewVars, authVars, connVars>>

(***************************************************************************)
(* VDIClient.connect_to_vm                                                 *)
(***************************************************************************)
PollBudget == 30

\* Guest records as get_vms projects them.
ConnGuests ==
    [ vmid : {101}, name : {<<1>>}, node : {"pve1"},
      status : {"running", "stopped", "paused"},
      type : {"qemu", "lxc"},
      lock : {NoneStr, "suspended"} ]

\* What one tasks(jobid).status.get() can do: raise, or answer with a job
\* status that has or has not an exitstatus.
QueryRaised == [raised |-> TRUE]
JobStatuses ==
    { [status |-> "running"] } \cup
    [status : {"stopped"}, exitstatus : {"OK", "ERROR", "WARNINGS: 1"}]
Samples == { QueryRaised } \cup JobStatuses

StartFailedError == Exc("RuntimeError", <<"Failed to start VM">>)
StartTimeoutError == Exc("RuntimeError", <<"VM failed to start within 30 seconds">>)

\* The outer except clause: raise RuntimeError(f"Failed to connect to VM: {e}").
ConnectError_NoDetail(e) == Exc("RuntimeError", <<"Failed to connect to VM: ">>)

ConnectError(e) == Exc("RuntimeError", <<"Failed to connect to VM: ">> \o e.msg)

\* if vm['status'] != 'running'
NeedsStart_Always(v) == TRUE

NeedsStart(v) == v.status # "running"

\* The body of the polling loop after the sleep, for one sample.
SampleVerdict_AbortOnError(sample) ==
    IF "raised" \in DOMAIN sample THEN "raise"
    ELSE IF "exitstatus" \in DOMAIN sample
         THEN IF sample.exitstatus # "OK" THEN "raise" ELSE "break"
         ELSE "continue"

SampleVerdict_AnyCompletion(sample) ==
    IF "raised" \in DOMAIN sample THEN "continue"
    ELSE IF "exitstatus" \in DOMAIN sample THEN "break"
    ELSE "continue"

SampleVerdict_IgnoreCompletion(sample) ==
    IF "raised" \in DOMAIN sample THEN "continue"
    ELSE IF "exitstatus" \in DOMAIN sample
         THEN IF sample.exitstatus # "OK" THEN "raise" ELSE "continue"
         ELSE "continue"

SampleVerdict(sample) ==
    IF "raised" \in DOMAIN sample THEN "continue"
    ELSE IF "exitstatus" \in DOMAIN sample
         THEN IF sample.exitstatus # "OK" THEN "raise" ELSE "break"
         ELSE "continue"

\* connect_to_vm(v) is entered; a guest that is not running is started.
ConnectEnter(v) ==
    /\ vm' = v
    /\ i' = 0 /\ statusQueries' = 0 /\ queryFails' = 0 /\ lastSample' = None
    /\ tickets' = 0 /\ launched' = 0
    /\ spiceconfig' = None /\ config_string' = None
    /\ IF NeedsStart(v)
       THEN /\ startCmds' = 1
            /\ startKind' = IF v.type = "qemu" THEN "qemu" ELSE "lxc"
            /\ \E accepted \in BOOLEAN :
                  IF accepted
                  THEN pc' = "conn_poll" /\ connRet' = NoRet
                  ELSE /\ pc' = "conn_raised"
                       /\ connRet' = Raise(ConnectError(LibExc("other")))
       ELSE /\ startCmds' = 0
            /\ startKind' = NoneStr
            /\ pc' = "conn_ticket"
            /\ connRet' = NoRet
    /\ UNCHANGED <<hosts, current_hostset, proxmox, guest_type, viewVars, authVars, dirVars>>

\* A call of connect_to_vm on an authenticated client, for any guest.
ConnectCall ==
    /\ pc \in {"idle", "conn_returned", "conn_raised"}
    /\ proxmox # None
    /\ \E v \in ConnGuests : ConnectEnter(v)
    /\ UNCHANGED mainVars

\* One iteration of for i in range(30): sleep, query the task, look at it.
PollSample ==
    /\ pc = "conn_poll"
    /\ i < PollBudget
    /\ i' = i + 1
    /\ statusQueries' = statusQueries + 1
    /\ \E sample \in Samples :
          LET verdict == SampleVerdict(sample) IN
          /\ lastSample' = sample
          /\ queryFails' = IF "raised" \in DOMAIN sample THEN queryFails + 1 ELSE queryFails
          /\ CASE verdict = "continue" -> pc' = "conn_poll" /\ connRet' = connRet
               [] verdict = "break" -> pc' = "conn_ticket" /\ connRet' = connRet
               [] OTHER -> /\ pc' = "conn_raised"
                           /\ connRet' = Raise(ConnectError(StartFailedError))
    /\ UNCHANGED mainVars
    /\ UNCHANGED <<hosts, current_hostset, proxmox, guest_type, viewVars, authVars, dirVars,
                   vm, startCmds, startKind, tickets, launched, spiceconfig,
                   config_string>>

\* The else clause of the loop: range(30) is used up and nothing broke out.
PollTimedOut ==
    /\ pc = "conn_poll"
    /\ i = PollBudget
    /\ pc' = "conn_raised"
    /\ connRet' = Raise(ConnectError(StartTimeoutError))
    /\ UNCHANGED mainVars
    /\ UNCHANGED <<hosts, current_hostset, proxmox, guest_type, viewVars, authVars, dirVars,
                   vm, i, startCmds, startKind, statusQueries, queryFails, lastSample,
                   tickets, launched, spiceconfig, config_string>>

\* A str is the sequence of its characters.
Upper == <<"A", "B", "C", "D", "E", "F", "G", "H", "I", "J", "K", "L", "M",
           "N", "O", "P", "Q", "R", "S", "T", "U", "V", "W", "X", "Y", "Z">>
Lower == <<"a", "b", "c", "d", "e", "f", "g", "h", "i", "j", "k", "l", "m",
           "n", "o", "p", "q", "r", "s", "t", "u", "v", "w", "x", "y", "z">>
Digit == <<"0", "1", "2", "3", "4", "5", "6", "7", "8", "9">>

\* str.lower()
lower(s) ==
    [k \in DOMAIN s |->
        IF \E u \in DOMAIN Upper : Upper[u] = s[k]
        THEN Lower[CHOOSE u \in DOMAIN Upper : Upper[u] = s[k]]
        ELSE s[k]]

\* A ticket value is a str or an int.
PyStr(s) == [str |-> s]
PyInt(n) == [int |-> n]

RECURSIVE Decimal(_)
Decimal(n) ==
    IF n < 10 THEN <<Digit[n + 1]>>
    ELSE Append(Decimal(n \div 10), Digit[(n % 10) + 1])

\* str(value)
str(v) == IF "int" \in DOMAIN v THEN Decimal(v.int) ELSE v.str

\* A dict or a parser section: its items in insertion order, keys distinct.
Item(k, v) == [key |-> k, value |-> v]
\* A dict held where None can be held too.
PyDict(items) == [dict |-> items]
Keys(d) == { d[n].key : n \in DOMAIN d }
Get(d, k) == d[CHOOSE n \in DOMAIN d : d[n].key = k].value

\* section[key] = value
SetItem(d, k, v) ==
    IF k \in Keys(d)
    THEN [n \in DOMAIN d |-> IF d[n].key = k THEN Item(k, v) ELSE d[n]]
    ELSE Append(d, Item(k, v))

Http == <<"h", "t", "t", "p", ":", "/", "/">>
Https == <<"h", "t", "t", "p", "s", ":", "/", "/">>

\* value[7:]
SchemeCut(value) == SubSeq(value, 8, Len(value))

\* The value stored for one ticket field.
TicketValue_LowerProxy(key, value, conv) ==
    IF key = "proxy"
    THEN LET val == lower(SchemeCut(value.str)) IN
         IF val \in DOMAIN conv THEN Http \o conv[val] ELSE Http \o val
    ELSE str(value)

TicketValue(key, value, conv) ==
    IF key = "proxy"
    THEN LET val == lower(SchemeCut(value.str)) IN
         IF val \in DOMAIN conv THEN Http \o conv[val] ELSE value.str
    ELSE str(value)

\* The loop over spiceconfig.items().
RECURSIVE TicketSection(_, _, _, _)
TicketSection(ticket, n, conv, section) ==
    IF n > Len(ticket) THEN section
    ELSE TicketSection(ticket, n + 1, conv,
             SetItem(section, ticket[n].key,
                     TicketValue(ticket[n].key, ticket[n].value, conv)))

\* The loop over self.addl_params.items().
RECURSIVE Overlay(_, _, _)
Overlay(params, n, section) ==
    IF n > Len(params) THEN section
    ELSE Overlay(params, n + 1, SetItem(section, params[n].key, params[n].value))

\* The virt-viewer section after both loops.
build_config_TicketWins(ticket, conv, params) ==
    LET extra == IF params = None \/ params.dict = <<>> THEN <<>>
                 ELSE Overlay(params.dict, 1, <<>>)
    IN  TicketSection(ticket, 1, conv, extra)

build_config(ticket, conv, params) ==
    LET section == TicketSection(ticket, 1, conv, <<>>)
    IN  IF params = None \/ params.dict = <<>> THEN section
        ELSE Overlay(params.dict, 1, section)

\* config_parser.write: the section header and one "key = value" line per item.
write(section) ==
    [ header |-> "[virt-viewer]",
      lines |-> [n \in DOMAIN section |-> <<section[n].key, " = ", section[n].value>>] ]

\* Proxy hosts and their replacements.
Px1 == <<"p", "x", "1", ":", "3", "1", "2", "8">>
Px1Caps == <<"P", "x", "1", ":", "3", "1", "2", "8">>
Px2 == <<"p", "x", "2">>
Pub1 == <<"p", "u", "b", ":", "4", "4", "3">>
Pub2 == <<"g", "w">>

\* Tickets the spiceproxy post can answer with: with or without a proxy
\* field, the proxy under http or https, next to str and int fields.
Tickets ==
    LET rest == { <<Item("port", PyStr(<<"5", "9", "0", "0">>))>>,
                  <<Item("title", PyStr(<<"Y">>)), Item("tls-port", PyInt(61000))>> }
        proxies == { Http \o Px1, Http \o Px1Caps, Https \o Px1, Http \o Px2, Https \o Px2 }
    IN  rest \cup
        { <<Item("proxy", PyStr(x))>> \o r : x \in proxies, r \in rest }

\* Redirect tables as load_config reads them: lower-cased host[:port] keys.
RedirectTables ==
    { <<>>,
      [k \in {Px1} |-> Pub1],
      [k \in {Px1, Px2} |-> IF k = Px1 THEN Pub1 ELSE Pub2] }

\* self.addl_params: None, or the AdditionalParameters section.
ExtraParams ==
    { None,
      PyDict(<<>>),
      PyDict(<<Item("title", <<"X">>)>>),
      PyDict(<<Item("proxy", Http \o Pub2), Item("fullscreen", <<"1">>)>>) }

\* The spiceproxy ticket is requested, the viewer configuration built from
\* it and the viewer run on it until it exits.
ConnectViewer ==
    /\ pc = "conn_ticket"
    /\ tickets' = 1
    /\ \/ /\ spiceconfig' = None
          /\ config_string' = None
          /\ launched' = 0
          /\ pc' = "conn_raised"
          /\ connRet' = Raise(ConnectError(LibExc("other")))
       \/ \E ticket \in Tickets :
             /\ spiceconfig' = PyDict(ticket)
             /\ config_string' = write(build_config(ticket, spiceproxy_conv, addl_params))
             /\ \/ /\ launched' = 1
                   /\ pc' = "conn_returned"
                   /\ connRet' = Return(TRUE)
                \/ /\ launched' = 0
                   /\ pc' = "conn_raised"
                   /\ connRet' = Raise(ConnectError(Exc("OSError", <<"viewer">>)))
    /\ UNCHANGED mainVars
    /\ UNCHANGED <<hosts, current_hostset, proxmox, guest_type, viewVars, authVars, dirVars,
                   vm, i, startCmds, startKind, statusQueries, queryFails, lastSample>>

(***************************************************************************)
(* VDIClient.load_config                                                   *)
(***************************************************************************)
\* A configuration file as ConfigParser holds it after config.read: each
\* section is its option list in file order, or None when the file has no
\* such section; groups are the Hosts.* sections in file order.  Port and
\* vmid values are the integers int() and getint() read from their text.
NoFile == [exists |-> FALSE]
Section(options) == [options |-> options]
Group(group, options) == [group |-> group, options |-> options]
Json(items) == [json |-> TRUE, items |-> items]
BadJson == [json |-> FALSE]
IniFile(general, authentication, legacy_hosts, groups, redirect, extra) ==
    [ exists |-> TRUE, General |-> general, Authentication |-> authentication,
      Hosts |-> legacy_hosts, groups |-> groups,
      SpiceProxyRedirect |-> redirect, AdditionalParameters |-> extra ]

\* The host-set both branches start from (lines 76-87 and 120-131).
DefaultHostSet ==
    [ hostpool |-> <<>>, backend |-> "pve", user |-> "",
      token_name |-> NoneStr, token_value |-> NoneStr,
      totp |-> FALSE, verify_ssl |-> TRUE, auto_vmid |-> None ]

\* hostpool.append({'host': key, 'port': int(value)}) for every key.
Pool(items) == [k \in 1..Len(items) |-> [host |-> items[k].key, port |-> items[k].value]]

\* The "if option in section: hostset[field] = section[option]" chains.
LegacyOptions ==
    { <<"auth_backend", "backend">>, <<"user", "user">>,
      <<"token_name", "token_name">>, <<"token_value", "token_value">>,
      <<"auth_totp", "totp">>, <<"tls_verify", "verify_ssl">> }
GroupOptions == LegacyOptions \cup { <<"auto_vmid", "auto_vmid">> }
ApplyOptions(hostset, options, table) ==
    [ f \in DOMAIN hostset |->
        IF \E m \in table : m[2] = f /\ m[1] \in Keys(options)
        THEN Get(options, (CHOOSE m \in table : m[2] = f)[1])
        ELSE hostset[f] ]

\* self.hosts[group] = value
SetHostSet(hs, group, value) ==
    [ n \in (DOMAIN hs) \cup {group} |-> IF n = group THEN value ELSE hs[n] ]

\* What load_config leaves behind: how it ended and the fields it wrote.
Loaded(ret, hs, cur, gt, conv, extra) ==
    [ ret |-> ret, hosts |-> hs, current_hostset |-> cur, guest_type |-> gt,
      spiceproxy_conv |-> conv, addl_params |-> extra ]

\* The loop over config.sections() that loads the Hosts.* sections.
RECURSIVE LoadGroups(_, _, _, _)
LoadGroups(groups, k, hs, cur) ==
    IF k > Len(groups)
    THEN [ok |-> TRUE, hosts |-> hs, current_hostset |-> cur]
    ELSE LET g == groups[k]
             cur1 == IF k = 1 THEN g.group ELSE cur
             hs1 == SetHostSet(hs, g.group, DefaultHostSet)
         IN  IF "hostpool" \notin Keys(g.options) \/ ~Get(g.options, "hostpool").json
             THEN [ok |-> FALSE, hosts |-> hs1, current_hostset |-> cur1]
             ELSE LoadGroups(groups, k + 1,
                             SetHostSet(hs1, g.group,
                                 [ApplyOptions(hs1[g.group], g.options, GroupOptions)
                                     EXCEPT !.hostpool = Pool(Get(g.options, "hostpool").items)]),
                             cur1)

\* for key in config['SpiceProxyRedirect']: self.spiceproxy_conv[key] = ...
LoadRedirects(conv, section) ==
    IF section = None THEN conv
    ELSE [ k \in (DOMAIN conv) \cup Keys(section.options) |->
             IF k \in Keys(section.options) THEN Get(section.options, k) ELSE conv[k] ]

LoadExtra(extra, section) ==
    IF section = None THEN extra ELSE PyDict(section.options)

\* The messages are kept without their backquotes.
ValueError(msg) == Exc("ValueError", msg)

\* load_config on the client as it stands: the result and the fields written
\* up to the point where it returned or raised.
LoadSections(cfg) ==
    LET gt == IF cfg.exists /\ cfg.General # None /\ "guest_type" \in Keys(cfg.General.options)
              THEN Get(cfg.General.options, "guest_type") ELSE guest_type
        legacy == SetHostSet(hosts, "DEFAULT",
                     [ApplyOptions(DefaultHostSet, cfg.Authentication.options, LegacyOptions)
                         EXCEPT !.hostpool = Pool(cfg.Hosts.options)])
        grp == LoadGroups(cfg.groups, 1, hosts, current_hostset)
        hs == IF cfg.Authentication # None THEN legacy ELSE grp.hosts
        cur == IF cfg.Authentication # None THEN current_hostset ELSE grp.current_hostset
    IN  IF ~cfg.exists
        THEN Loaded(Raise(Exc("FileNotFoundError", <<"Configuration file not found">>)),
                    hosts, current_hostset, guest_type, spiceproxy_conv, addl_params)
        ELSE IF cfg.General = None
        THEN Loaded(Raise(ValueError(<<"No General section found in configuration!">>)),
                    hosts, current_hostset, guest_type, spiceproxy_conv, addl_params)
        ELSE IF cfg.Authentication # None /\ cfg.Hosts = None
        THEN Loaded(Raise(ValueError(<<"No Hosts section found in legacy configuration!">>)),
                    SetHostSet(hosts, "DEFAULT", DefaultHostSet), current_hostset, gt,
                    spiceproxy_conv, addl_params)
        ELSE IF cfg.Authentication = None /\ ~grp.ok
        THEN Loaded(Raise(ValueError(<<"Error parsing hostpool in section ", "Hosts.", cur>>)),
                    hs, cur, gt, spiceproxy_conv, addl_params)
        ELSE Loaded(Return(None), hs, cur, gt,
                    LoadRedirects(spiceproxy_conv, cfg.SpiceProxyRedirect),
                    LoadExtra(addl_params, cfg.AdditionalParameters))

load_config(cfg) ==
    LET done == LoadSections(cfg)
    IN  IF done.ret.kind = "return" /\ DOMAIN done.hosts = {}
        THEN [done EXCEPT !.ret = Raise(ValueError(<<"No host configurations found!">>))]
        ELSE done

(***************************************************************************)
(* main and main_menu                                                      *)
(***************************************************************************)
\* The configuration files main is run with.
Credentials ==
    <<Item("user", "vdi"), Item("token_name", "tok"), Item("token_value", "secret")>>
Pve1Only == Json(<<Item("pve1", 8006)>>)
LegacyFile ==
    IniFile(Section(<<>>), Section(Credentials), Section(<<Item("pve1", 8006)>>),
            <<>>, None, None)
LegacyBareFile ==
    IniFile(Section(<<>>), Section(<<>>), Section(<<>>), <<>>, None, None)
LegacyNoHostsFile ==
    IniFile(Section(<<>>), Section(Credentials), None, <<>>, None, None)
AutoFile(vmid, gt) ==
    IniFile(Section(<<Item("guest_type", gt)>>), None, None,
            <<Group("main", Credentials \o <<Item("hostpool", Pve1Only),
                                              Item("auto_vmid", PyInt(vmid))>>),
              Group("spare", <<Item("hostpool", Json(<<Item("pve9", 8006)>>))>>)>>,
            Section(<<Item(Px1, Pub1)>>), Section(<<Item("title", <<"X">>)>>))
TwoHostFile ==
    IniFile(Section(<<>>), None, None,
            <<Group("main", Credentials \o
                 <<Item("hostpool", Json(<<Item("pve1", 8006), Item("pve2", 8006)>>))>>)>>,
            None, None)
NoUserFile ==
    IniFile(Section(<<>>), None, None,
            <<Group("main", <<Item("hostpool", Pve1Only), Item("auto_vmid", PyInt(0))>>)>>,
            None, None)
EmptyPoolFile ==
    IniFile(Section(<<>>), None, None,
            <<Group("main", Credentials \o <<Item("hostpool", Json(<<>>))>>)>>,
            None, None)
BadPoolFile ==
    IniFile(Section(<<>>), None, None,
            <<Group("main", Credentials \o <<Item("hostpool", Pve1Only)>>),
              Group("spare", <<Item("hostpool", BadJson)>>)>>,
            None, None)
NoPoolFile ==
    IniFile(Section(<<>>), None, None, <<Group("main", Credentials)>>, None, None)
NoGroupsFile == IniFile(Section(<<>>), None, None, <<>>, None, None)
NoGeneralFile ==
    IniFile(None, Section(Credentials), Section(<<Item("pve1", 8006)>>), <<>>, None, None)
Configs ==
    << NoFile, NoGeneralFile, LegacyFile, LegacyBareFile, LegacyNoHostsFile,
       AutoFile(101, "both"), AutoFile(102, "both"), AutoFile(102, "qemu"),
       AutoFile(105, "both"), TwoHostFile, NoUserFile, EmptyPoolFile,
       BadPoolFile, NoPoolFile, NoGroupsFile >>

\* What the cluster answers to the directory queries made by main and main_menu.
G101 == [vmid |-> 101, name |-> <<2>>, node |-> "pve1", type |-> "qemu", status |-> "stopped"]
G102 ==
    [vmid |-> 102, name |-> <<1>>, node |-> "pve1", type |-> "lxc",
     status |-> "running", lock |-> "suspended"]
MainNodeFetches == { Fetched(<<[node |-> "pve1", status |-> "online"]>>), FetchFailed }
\* The same two guests after a rename that swaps their places in the listing.
G101Renamed == [G101 EXCEPT !.name = <<1>>]
G102Renamed == [G102 EXCEPT !.name = <<1, 2>>]
MainVmFetches ==
    { Fetched(<<>>), Fetched(<<G101>>), Fetched(<<G101, G102>>),
      Fetched(<<G102Renamed, G101Renamed>>) }

\* The keys stdscr.getch() can return.
MenuKeys == { "q", "Q", "r", "R", "KEY_UP", "KEY_DOWN", "\n", " ", "x" }

clientVars == <<hosts, current_hostset, proxmox, guest_type, viewVars>>

\* The local vms of main and of main_menu: what the last get_vms returned.
vms == vmsRet.value
auto_vmid == hosts[current_hostset].auto_vmid
\* Truth value of hosts[...].get('auto_vmid'): None and 0 are false.
Truthy(v) == v # None /\ v.int # 0
min(a, b) == IF a <= b THEN a ELSE b

\* main leaves through return.
MainExit(code) == pc' = "main_done" /\ mainRet' = Return(code)

\* curses.wrapper(main_menu, client) is entered.
MenuEnter ==
    /\ pc' = "menu_loop"
    /\ selected_idx' = 0
    /\ menuStarts' = menuStarts + 1

\* client.load_config(args.config)
MainLoadConfig ==
    /\ pc = "main_load"
    /\ LET done == load_config(config) IN
          /\ hosts' = done.hosts
          /\ current_hostset' = done.current_hostset
          /\ guest_type' = done.guest_type
          /\ spiceproxy_conv' = done.spiceproxy_conv
          /\ addl_params' = done.addl_params
          /\ IF done.ret.kind = "raise"
             THEN MainExit(1)
             ELSE pc' = "main_viewer" /\ mainRet' = mainRet
    /\ UNCHANGED <<proxmox, authVars, dirVars, connVars>>
    /\ UNCHANGED <<getch, config, caller, selected_idx, authCalls, autoConnects, menuStarts>>

\* client.find_viewer_command(): the viewer is installed or RuntimeError.
MainFindViewer ==
    /\ pc = "main_viewer"
    /\ \E found \in BOOLEAN :
          IF found THEN pc' = "main_auth" /\ mainRet' = mainRet ELSE MainExit(1)
    /\ UNCHANGED <<clientVars, authVars, dirVars, connVars>>
    /\ UNCHANGED <<getch, config, caller, selected_idx, authCalls, autoConnects, menuStarts>>

\* client.authenticate()
MainAuthenticate ==
    /\ pc = "main_auth"
    /\ AuthEnter
    /\ authCalls' = authCalls + 1
    /\ UNCHANGED <<getch, config, mainRet, caller, selected_idx, autoConnects, menuStarts>>

\* authenticate has ended: its exception reaches except Exception, its return
\* leads to the auto_vmid test.
MainAuthDone_Retry ==
    /\ pc \in {"auth_returned", "auth_raised"}
    /\ IF pc = "auth_raised"
       THEN /\ IF authCalls < 2 THEN pc' = "main_auth" /\ mainRet' = mainRet ELSE MainExit(1)
            /\ UNCHANGED <<selected_idx, menuStarts, idx, attempts>>
       ELSE /\ idx' = 0 /\ attempts' = <<>>
            /\ IF Truthy(auto_vmid)
               THEN pc' = "main_auto" /\ UNCHANGED <<mainRet, selected_idx, menuStarts>>
               ELSE MenuEnter /\ mainRet' = mainRet
    /\ UNCHANGED <<clientVars, authRet, dirVars, connVars>>
    /\ UNCHANGED <<getch, config, caller, authCalls, autoConnects>>

MainAuthDone ==
    /\ pc \in {"auth_returned", "auth_raised"}
    /\ IF pc = "auth_raised"
       THEN /\ MainExit(1)
            /\ UNCHANGED <<selected_idx, menuStarts, idx, attempts>>
       ELSE /\ idx' = 0 /\ attempts' = <<>>
            /\ IF Truthy(auto_vmid)
               THEN pc' = "main_auto" /\ UNCHANGED <<mainRet, selected_idx, menuStarts>>
               ELSE MenuEnter /\ mainRet' = mainRet
    /\ UNCHANGED <<clientVars, authRet, dirVars, connVars>>
    /\ UNCHANGED <<getch, config, caller, authCalls, autoConnects>>

\* vms = client.get_vms() of the auto-connect branch.
MainAutoList ==
    /\ pc = "main_auto"
    /\ \E nr \in MainNodeFetches, vr \in MainVmFetches :
          /\ nodesReply' = nr
          /\ vmsReply' = vr
          /\ vmsRet' = get_vms(nr, vr, guest_type)
    /\ IF vmsRet'.kind = "raise"
       THEN MainExit(1)
       ELSE pc' = "main_scan" /\ mainRet' = mainRet
    /\ UNCHANGED <<clientVars, authVars, connVars>>
    /\ UNCHANGED <<getch, config, caller, selected_idx, authCalls, autoConnects, menuStarts>>

\* for vm in vms: connect to the first guest whose vmid is auto_vmid, or fall
\* through to the menu when there is none.
MainAutoScan_MenuAlways ==
    /\ pc = "main_scan"
    /\ MenuEnter
    /\ UNCHANGED <<clientVars, authVars, dirVars, connVars>>
    /\ UNCHANGED <<getch, config, mainRet, caller, authCalls, autoConnects>>

MainAutoScan ==
    /\ pc = "main_scan"
    /\ LET hits == { k \in DOMAIN vms : vms[k].vmid = auto_vmid.int } IN
          IF hits # {}
          THEN /\ ConnectEnter(vms[CHOOSE k \in hits : \A h \in hits : k <= h])
               /\ caller' = "main"
               /\ autoConnects' = autoConnects + 1
               /\ UNCHANGED <<getch, config, mainRet, selected_idx, authCalls, menuStarts>>
          ELSE /\ MenuEnter
               /\ UNCHANGED <<clientVars, authVars, dirVars, connVars>>
               /\ UNCHANGED <<getch, config, mainRet, caller, authCalls, autoConnects>>

\* connect_to_vm called by main has ended: return 0 follows its return,
\* except Exception and return 1 follow its exception.
MainConnectDone ==
    /\ pc \in {"conn_returned", "conn_raised"}
    /\ caller = "main"
    /\ MainExit(IF pc = "conn_returned" THEN 0 ELSE 1)
    /\ UNCHANGED <<clientVars, authVars, dirVars, connVars>>
    /\ UNCHANGED <<getch, config, caller, selected_idx, authCalls, autoConnects, menuStarts>>

\* Top of the while loop of main_menu: vms = client.get_vms(), then the
\* error prompt, the "No VMs available" prompt, or the menu drawn with the
\* selection clamped to the listing.
MenuGetVms_NoClamp ==
    /\ pc = "menu_loop"
    /\ \E nr \in MainNodeFetches, vr \in MainVmFetches :
          /\ nodesReply' = nr
          /\ vmsReply' = vr
          /\ vmsRet' = get_vms(nr, vr, guest_type)
    /\ IF vmsRet'.kind = "raise"
       THEN pc' = "menu_error_key"
       ELSE IF vmsRet'.value = <<>>
       THEN pc' = "menu_empty_key"
       ELSE pc' = "menu_key"
    /\ UNCHANGED <<clientVars, authVars, connVars, mainVars>>

MenuGetVms ==
    /\ pc = "menu_loop"
    /\ \E nr \in MainNodeFetches, vr \in MainVmFetches :
          /\ nodesReply' = nr
          /\ vmsReply' = vr
          /\ vmsRet' = get_vms(nr, vr, guest_type)
    /\ IF vmsRet'.kind = "raise"
       THEN pc' = "menu_error_key" /\ selected_idx' = selected_idx
       ELSE IF vmsRet'.value = <<>>
       THEN pc' = "menu_empty_key" /\ selected_idx' = selected_idx
       ELSE /\ pc' = "menu_key"
            /\ selected_idx' = min(selected_idx, Len(vmsRet'.value) - 1)
    /\ UNCHANGED <<clientVars, authVars, connVars>>
    /\ UNCHANGED <<getch, config, mainRet, caller, authCalls, autoConnects, menuStarts>>

\* key = stdscr.getch() and the if/elif chain on it.
MenuKey ==
    /\ pc = "menu_key"
    /\ getch' \in MenuKeys
    /\ IF getch' \in {"q", "Q"}
       THEN /\ MainExit(0)
            /\ UNCHANGED <<clientVars, authVars, dirVars, connVars>>
            /\ UNCHANGED <<config, caller, selected_idx, authCalls, autoConnects, menuStarts>>
       ELSE IF getch' \in {"r", "R"}
       THEN /\ pc' = "menu_loop"
            /\ UNCHANGED <<clientVars, authVars, dirVars, connVars>>
            /\ UNCHANGED <<config, mainRet, caller, selected_idx, authCalls, autoConnects,
                           menuStarts>>
       ELSE IF getch' = "KEY_UP" /\ selected_idx > 0
       THEN /\ pc' = "menu_loop"
            /\ selected_idx' = selected_idx - 1
            /\ UNCHANGED <<clientVars, authVars, dirVars, connVars>>
            /\ UNCHANGED <<config, mainRet, caller, authCalls, autoConnects, menuStarts>>
       ELSE IF getch' = "KEY_DOWN" /\ selected_idx < Len(vms) - 1
       THEN /\ pc' = "menu_loop"
            /\ selected_idx' = selected_idx + 1
            /\ UNCHANGED <<clientVars, authVars, dirVars, connVars>>
            /\ UNCHANGED <<config, mainRet, caller, authCalls, autoConnects, menuStarts>>
       ELSE IF getch' \in {"\n", " "}
       THEN /\ ConnectEnter(vms[selected_idx + 1])
            /\ caller' = "menu"
            /\ UNCHANGED <<config, mainRet, selected_idx, authCalls, autoConnects, menuStarts>>
       ELSE /\ pc' = "menu_loop"
            /\ UNCHANGED <<clientVars, authVars, dirVars, connVars>>
            /\ UNCHANGED <<config, mainRet, caller, selected_idx, authCalls, autoConnects,
                           menuStarts>>

\* connect_to_vm called by main_menu has ended: its exception is caught and
\* printed, the "Connection closed" prompt follows either way.
MenuConnectDone_Propagate ==
    /\ pc \in {"conn_returned", "conn_raised"}
    /\ caller = "menu"
    /\ IF pc = "conn_raised" THEN MainExit(1)
       ELSE pc' = "menu_closed_key" /\ mainRet' = mainRet
    /\ caller' = "none"
    /\ UNCHANGED <<clientVars, authVars, dirVars, connVars>>
    /\ UNCHANGED <<getch, config, selected_idx, authCalls, autoConnects, menuStarts>>

MenuConnectDone ==
    /\ pc \in {"conn_returned", "conn_raised"}
    /\ caller = "menu"
    /\ pc' = "menu_closed_key"
    /\ caller' = "none"
    /\ UNCHANGED <<clientVars, authVars, dirVars, connVars>>
    /\ UNCHANGED <<getch, config, mainRet, selected_idx, authCalls, autoConnects, menuStarts>>

\* The getch() of the "Press any key to continue" prompts: the key is dropped
\* and the loop starts over, nothing of the finished connect_to_vm call left.
MenuAnyKey_QuitOnQ ==
    /\ pc \in {"menu_closed_key", "menu_error_key"}
    /\ getch' \in MenuKeys
    /\ IF getch' \in {"q", "Q"}
       THEN MainExit(0)
       ELSE pc' = "menu_loop" /\ mainRet' = mainRet
    /\ vm' = None /\ i' = 0 /\ startCmds' = 0 /\ startKind' = NoneStr
    /\ statusQueries' = 0 /\ queryFails' = 0 /\ lastSample' = None
    /\ tickets' = 0 /\ launched' = 0 /\ connRet' = NoRet
    /\ spiceconfig' = None /\ config_string' = None
    /\ UNCHANGED <<clientVars, authVars, dirVars>>
    /\ UNCHANGED <<config, caller, selected_idx, authCalls, autoConnects, menuStarts>>

MenuAnyKey ==
    /\ pc \in {"menu_closed_key", "menu_error_key"}
    /\ getch' \in MenuKeys
    /\ pc' = "menu_loop"
    /\ vm' = None /\ i' = 0 /\ startCmds' = 0 /\ startKind' = NoneStr
    /\ statusQueries' = 0 /\ queryFails' = 0 /\ lastSample' = None
    /\ tickets' = 0 /\ launched' = 0 /\ connRet' = NoRet
    /\ spiceconfig' = None /\ config_string' = None
    /\ UNCHANGED <<clientVars, authVars, dirVars>>
    /\ UNCHANGED <<config, mainRet, caller, selected_idx, authCalls, autoConnects, menuStarts>>

\* The getch() of "No VMs available. Press any key to exit." and the break:
\* main_menu returns and main returns 0.
MenuEmptyKey ==
    /\ pc = "menu_empty_key"
    /\ getch' \in MenuKeys
    /\ MainExit(0)
    /\ UNCHANGED <<clientVars, authVars, dirVars, connVars>>
    /\ UNCHANGED <<config, caller, selected_idx, authCalls, autoConnects, menuStarts>>

InitMain ==
    /\ config = None /\ mainRet = NoRet /\ caller = "none" /\ selected_idx = 0
    /\ authCalls = 0 /\ autoConnects = 0 /\ menuStarts = 0 /\ getch = NoneStr

InitDir == nodesReply = None /\ vmsReply = None /\ vmsRet = NoRet
InitConn ==
    /\ vm = None /\ i = 0 /\ startCmds = 0 /\ startKind = NoneStr
    /\ statusQueries = 0 /\ queryFails = 0 /\ lastSample = None
    /\ tickets = 0 /\ launched = 0 /\ connRet = NoRet
    /\ spiceconfig = None /\ config_string = None

InitAuth ==
    /\ current_hostset = "main"
    /\ \E p \in HostPools :
          hosts = [hs \in {"main", "spare"} |->
                      IF hs = "main" THEN HostSet(p)
                      ELSE HostSet(<<[host |-> "pve9", port |-> 8006]>>)]
    /\ proxmox = None
    /\ guest_type = "both"
    /\ spiceproxy_conv = <<>> /\ addl_params = None
    /\ pc = "idle"
    /\ idx = 0 /\ attempts = <<>> /\ authRet = NoRet
    /\ InitMain
    /\ InitDir /\ InitConn

NextAuth == AuthCall \/ AuthAttempt \/ AuthExhausted

SpecAuth == InitAuth /\ [][NextAuth]_vars

InitDirSpec ==
    /\ current_hostset = "main"
    /\ hosts = [hs \in {"main"} |-> HostSet(<<[host |-> "pve1", port |-> 8006]>>)]
    /\ proxmox = ProxmoxAPI(hostpool[1])
    /\ guest_type \in GuestTypes
    /\ spiceproxy_conv = <<>> /\ addl_params = None
    /\ pc = "idle"
    /\ idx = 0 /\ attempts = <<>> /\ authRet = NoRet
    /\ InitMain
    /\ InitDir /\ InitConn

NextDir == GetVms

SpecDir == InitDirSpec /\ [][NextDir]_vars

InitConnSpec ==
    /\ current_hostset = "main"
    /\ hosts = [hs \in {"main"} |-> HostSet(<<[host |-> "pve1", port |-> 8006]>>)]
    /\ proxmox = ProxmoxAPI(hostpool[1])
    /\ guest_type = "both"
    /\ spiceproxy_conv = [k \in {Px1} |-> Pub1]
    /\ addl_params = PyDict(<<Item("title", <<"X">>)>>)
    /\ pc = "idle"
    /\ idx = 0 /\ attempts = <<>> /\ authRet = NoRet
    /\ InitMain
    /\ InitDir /\ InitConn

NextConn == ConnectCall \/ PollSample \/ PollTimedOut \/ ConnectViewer

SpecConn == InitConnSpec /\ [][NextConn]_vars

\* The thread of control keeps running: sleep(1) returns and a task-status
\* query answers or raises.
SpecConnFair == SpecConn /\ WF_vars(PollSample) /\ WF_vars(PollTimedOut)

\* connect_to_vm at the ticket request, for a running guest, under every
\* redirect table and every set of extra parameters.
InitView ==
    /\ current_hostset = "main"
    /\ hosts = [hs \in {"main"} |-> HostSet(<<[host |-> "pve1", port |-> 8006]>>)]
    /\ proxmox = ProxmoxAPI(hostpool[1])
    /\ guest_type = "both"
    /\ spiceproxy_conv \in RedirectTables
    /\ addl_params \in ExtraParams
    /\ pc = "conn_ticket"
    /\ idx = 0 /\ attempts = <<>> /\ authRet = NoRet
    /\ InitMain
    /\ InitDir
    /\ vm \in { v \in ConnGuests : ~NeedsStart(v) /\ v.lock = NoneStr }
    /\ i = 0 /\ startCmds = 0 /\ startKind = NoneStr
    /\ statusQueries = 0 /\ queryFails = 0 /\ lastSample = None
    /\ tickets = 0 /\ launched = 0 /\ connRet = NoRet
    /\ spiceconfig = None /\ config_string = None

NextView == ConnectViewer

SpecView == InitView /\ [][NextView]_vars

\* The client after VDIClient(), main about to load one of the configurations.
Init ==
    /\ \E n \in DOMAIN Configs : config = Configs[n]
    /\ hosts = <<>>
    /\ current_hostset = "DEFAULT"
    /\ proxmox = None
    /\ guest_type = "both"
    /\ spiceproxy_conv = <<>> /\ addl_params = None
    /\ pc = "main_load"
    /\ idx = 0 /\ attempts = <<>> /\ authRet = NoRet
    /\ mainRet = NoRet /\ caller = "none" /\ selected_idx = 0
    /\ authCalls = 0 /\ autoConnects = 0 /\ menuStarts = 0 /\ getch = NoneStr
    /\ InitDir /\ InitConn

Next ==
    \/ MainLoadConfig \/ MainFindViewer \/ MainAuthenticate
    \/ AuthAttempt \/ AuthExhausted \/ MainAuthDone
    \/ MainAutoList \/ MainAutoScan \/ MainConnectDone
    \/ PollSample \/ PollTimedOut \/ ConnectViewer
    \/ MenuGetVms \/ MenuKey \/ MenuConnectDone \/ MenuAnyKey \/ MenuEmptyKey

Spec == Init /\ [][Next]_vars

(***************************************************************************)
(* Properties of authenticate                                              *)
(***************************************************************************)
LastAttempt == attempts[Len(attempts)]
AuthEnded == pc \in {"auth_returned", "auth_raised"}
Bound(entry) == proxmox = ProxmoxAPI(entry)

\* C1: with a pool of at least one entry, authenticate either returns with
\* the session handle bound to the one entry whose test query succeeded, or
\* fails and leaves the client holding no handle bound to a pool entry.
C1_AllOrNothing ==
    Len(hostpool) >= 1 =>
        /\ pc = "auth_returned" =>
              /\ attempts # <<>>
              /\ LastAttempt.outcome.result = "ok"
              /\ Bound(LastAttempt.entry)
              /\ \A k \in 1..(Len(attempts) - 1) : attempts[k].outcome.result # "ok"
        /\ pc = "auth_raised" => \A e \in Range(hostpool) : ~Bound(e)

\* C2: a credential rejection ends the call at once: the rejected attempt is
\* the last one of the call, whatever its position, and the call has failed
\* with the credential error.
C2_CredentialShortCircuit ==
    \A k \in 1..Len(attempts) :
        attempts[k].outcome.result = "auth" =>
            /\ k = Len(attempts)
            /\ pc = "auth_raised"
            /\ authRet = Raise(AuthFailedError(LibExc("auth")))

C2_Witness ==
    /\ Len(hostpool) = 3
    /\ \E k \in 1..2 :
          /\ Len(attempts) = k
          /\ attempts[k].outcome.result = "auth"
    /\ pc = "auth_raised"

\* C3: the entries are attempted one by one in the shuffled order, each at
\* most once, up to the first success; a network failure moves on to the
\* next entry; "pool exhausted" is raised exactly when every entry was
\* attempted and every attempt was a network failure.
C3_SequentialFailover ==
    /\ Len(attempts) <= Len(hostpool)
    /\ \A k \in 1..Len(attempts) : attempts[k].entry = hostpool[k]
    /\ \A k \in 1..(Len(attempts) - 1) : attempts[k].outcome.result = "net"
    /\ pc = "auth_loop" =>
          /\ idx = Len(attempts) + 1
          /\ \A k \in 1..Len(attempts) : attempts[k].outcome.result = "net"
    /\ (attempts # <<>> /\ LastAttempt.outcome.result = "ok") =>
          (pc = "auth_returned" /\ authRet = Return(TRUE))
    /\ AuthEnded =>
          (authRet = Raise(PoolExhaustedError)
             <=> /\ Len(attempts) = Len(hostpool)
                 /\ \A k \in 1..Len(attempts) : attempts[k].outcome.result = "net")

C3_Witness ==
    /\ Len(hostpool) = 3
    /\ Len(attempts) = 3
    /\ pc = "auth_raised"
    /\ authRet = Raise(PoolExhaustedError)

C3_WitnessFailover ==
    /\ Len(attempts) = 2
    /\ attempts[1].outcome.result = "net"
    /\ attempts[2].outcome.result = "ok"
    /\ pc = "auth_returned"

(***************************************************************************)
(* Properties of get_vms                                                   *)
(***************************************************************************)
Listed == pc = "dir_done" /\ vmsRet.kind = "return"
listing == vmsRet.value
inventory == vmsReply.data

\* The nodes the node inventory reports with status "online".
OnlineSet ==
    { m.node : m \in { n \in Range(nodesReply.data) :
                          "status" \in DOMAIN n /\ n.status = "online" } }

TemplateSet(g) == "template" \in DOMAIN g /\ g.template # 0
KindMatches(g) == guest_type = "both" \/ g.type = guest_type
Eligible(g) == g.node \in OnlineSet /\ ~TemplateSet(g) /\ KindMatches(g)

\* C4: get_vms returns no guest of a node that is not online, no template
\* and, under a filter other than "both", no guest of another kind.
C4_OnlyVisibleGuests ==
    Listed =>
        \A j \in DOMAIN listing :
            /\ listing[j].node \in OnlineSet
            /\ guest_type # "both" => listing[j].type = guest_type
            /\ \E k \in DOMAIN inventory :
                  /\ inventory[k].vmid = listing[j].vmid
                  /\ inventory[k].node \in OnlineSet
                  /\ ~TemplateSet(inventory[k])
                  /\ guest_type # "both" => inventory[k].type = guest_type

C4_Witness ==
    /\ Listed
    /\ guest_type = "qemu"
    /\ Len(inventory) = 2
    /\ Len(listing) = 1
    /\ \E k \in DOMAIN inventory :
          inventory[k].node \in OnlineSet /\ TemplateSet(inventory[k])

\* C5: every guest of the inventory on an online node, not a template and of
\* a matching kind is in the returned list exactly once, its vmid, name,
\* node, status, type and lock unchanged.
C5_NoGuestDropped ==
    Listed =>
        \A k \in DOMAIN inventory :
            Eligible(inventory[k]) =>
                LET g == inventory[k] IN
                /\ Cardinality({ j \in DOMAIN listing : listing[j].vmid = g.vmid }) = 1
                /\ \A j \in DOMAIN listing :
                      listing[j].vmid = g.vmid =>
                          /\ listing[j].name = g.name
                          /\ listing[j].node = g.node
                          /\ listing[j].status = g.status
                          /\ listing[j].type = g.type
                          /\ listing[j].lock =
                                (IF "lock" \in DOMAIN g THEN g.lock ELSE NoneStr)

C5_Witness ==
    /\ Listed
    /\ Len(inventory) = 2
    /\ \A k \in DOMAIN inventory : Eligible(inventory[k])
    /\ "lock" \in DOMAIN inventory[1]
    /\ "lock" \notin DOMAIN inventory[2]
    /\ Len(listing) = 2

\* C6: the returned list is in ascending order of name, whatever the order
\* of the inventory, and is a rearrangement of the guests that passed the
\* filters.
C6_SortedByName ==
    Listed =>
        /\ \A j \in 1..(Len(listing) - 1) :
              ~StrLess(listing[j + 1].name, listing[j].name)
        /\ Len(listing) =
              Cardinality({ k \in DOMAIN inventory : Eligible(inventory[k]) })
        /\ \A a, b \in DOMAIN listing : a # b => listing[a].vmid # listing[b].vmid
        /\ \A j \in DOMAIN listing :
              \E k \in DOMAIN inventory :
                  Eligible(inventory[k]) /\ inventory[k].vmid = listing[j].vmid

\* The inventory lists two retained guests in descending order of name.
C6_Witness ==
    /\ Listed
    /\ Len(inventory) = 2
    /\ Len(listing) = 2
    /\ StrLess(inventory[2].name, inventory[1].name)
    /\ listing[1].vmid = inventory[2].vmid

\* A record of an answer lacks a field get_vms reads from it.
Unreadable ==
    /\ nodesReply.ok
    /\ \/ \E n \in Range(nodesReply.data) : "status" \notin DOMAIN n
       \/ /\ vmsReply.ok
          /\ \A n \in Range(nodesReply.data) : "status" \in DOMAIN n
          /\ \E g \in Range(inventory) : Eligible(g) /\ "name" \notin DOMAIN g

\* C7: when a fetch fails or a record cannot be read, get_vms ends in the one
\* "Failed to get VMs" error and returns no list, partial or otherwise.
C7_NoPartialListing ==
    (pc = "dir_done" /\ (~nodesReply.ok \/ ~vmsReply.ok \/ Unreadable)) =>
        /\ vmsRet.kind = "raise"
        /\ vmsRet.exc.type = "RuntimeError"
        /\ vmsRet.exc.msg[1] = "Failed to get VMs: "

\* A guest was collected before the record that cannot be read.
C7_Witness ==
    /\ pc = "dir_done"
    /\ nodesReply.ok /\ vmsReply.ok
    /\ Len(inventory) = 2
    /\ "name" \in DOMAIN inventory[1] /\ Eligible(inventory[1])
    /\ "name" \notin DOMAIN inventory[2] /\ Eligible(inventory[2])
    /\ vmsRet.kind = "raise"

(***************************************************************************)
(* Properties of connect_to_vm                                             *)
(***************************************************************************)
Connecting == pc \in {"conn_poll", "conn_ticket", "conn_returned", "conn_raised"}
ConnEnded == pc \in {"conn_returned", "conn_raised"}
TimedOut == connRet = Raise(ConnectError(StartTimeoutError))
Failed == connRet = Raise(ConnectError(StartFailedError))
ReachedRunning == pc = "conn_ticket" \/ tickets = 1

SampleRaised == "raised" \in DOMAIN lastSample
SampleCompleted == "exitstatus" \in DOMAIN lastSample
SampleOpen == SampleRaised \/ ("status" \in DOMAIN lastSample /\ ~SampleCompleted)

\* C8: for a guest whose status is "running", of either kind and with or
\* without a lock, no start command is posted and no task status is queried.
C8_RunningIsNoOp ==
    (Connecting /\ vm.status = "running") =>
        /\ startCmds = 0
        /\ startKind = NoneStr
        /\ statusQueries = 0
        /\ i = 0
        /\ pc # "conn_poll"

C8_Witness ==
    /\ pc = "conn_returned"
    /\ vm.status = "running"
    /\ vm.type = "lxc"
    /\ vm.lock = "suspended"
    /\ launched = 1

\* C9: for a guest that is not running, the call ends in the timeout error
\* exactly when the 30 samples are used up and the last of them reported no
\* completion, and in the start-failed error exactly when a sample reported
\* completion with an exit status other than "OK"; the caller sees two
\* different errors.
C9_TimedOutOrFailed ==
    (Connecting /\ vm.status # "running") =>
        /\ TimedOut <=> (pc = "conn_raised" /\ statusQueries = PollBudget /\ SampleOpen)
        /\ Failed <=> (SampleCompleted /\ lastSample.exitstatus # "OK")
        /\ Failed => pc = "conn_raised"
        /\ ~(TimedOut /\ Failed)

C9_Witness ==
    /\ pc = "conn_raised"
    /\ vm.status = "stopped"
    /\ TimedOut
    /\ statusQueries = PollBudget
    /\ queryFails = 0

C9_WitnessFailed ==
    /\ pc = "conn_raised"
    /\ vm.status = "stopped"
    /\ Failed
    /\ statusQueries = 3

\* C10: a status query that raises uses up one sample and the polling goes
\* on; a later sample reporting "OK" still lets the call proceed, and when
\* the queries raise up to the 30th sample the call ends in the timeout
\* error.
C10_QueryFailureSwallowed ==
    /\ statusQueries = i
    /\ queryFails <= statusQueries
    /\ statusQueries <= PollBudget
    /\ (Connecting /\ SampleRaised) =>
          \/ pc = "conn_poll"
          \/ pc = "conn_raised" /\ TimedOut /\ i = PollBudget
    /\ (Connecting /\ SampleCompleted /\ lastSample.exitstatus = "OK") => ReachedRunning
    /\ (ConnEnded /\ SampleRaised /\ i = PollBudget) => TimedOut

C10_Witness ==
    /\ pc = "conn_returned"
    /\ queryFails = PollBudget - 1
    /\ statusQueries = PollBudget
    /\ SampleCompleted /\ lastSample.exitstatus = "OK"
    /\ launched = 1

C10_WitnessFinal ==
    /\ pc = "conn_raised"
    /\ queryFails = PollBudget
    /\ TimedOut

\* C11: the polling loop ends: at most 30 task-status queries follow a start
\* command, none follows a sample that reported completion, and the loop
\* always leaves for the ticket request (Running) or for one of the two
\* errors (Failed, TimedOut).
C11_BoundedPolling ==
    /\ [](statusQueries <= PollBudget /\ i <= PollBudget)
    /\ [][(statusQueries' > statusQueries) =>
             (pc = "conn_poll" /\ startCmds = 1 /\ ~SampleCompleted)]_vars
    /\ [][(pc = "conn_poll" /\ pc' # "conn_poll") =>
             \/ pc' = "conn_ticket" /\ SampleCompleted' /\ lastSample'.exitstatus = "OK"
             \/ pc' = "conn_raised" /\ (Failed' \/ TimedOut')]_vars
    /\ (pc = "conn_poll") ~> (pc # "conn_poll")

\* The 30th sample is the first to report completion.
C11_Witness ==
    /\ pc = "conn_ticket"
    /\ statusQueries = PollBudget
    /\ SampleCompleted
    /\ queryFails = 1

\* The start command was posted and refused.
StartRejected == pc = "conn_raised" /\ startCmds = 1 /\ i = 0

\* C12: a ticket is requested only for a guest that was running or whose
\* start job completed with "OK"; the viewer is launched only on a ticket
\* that was obtained and a configuration built from it; after a refused
\* start, a failed start or a timeout there is no ticket request and no
\* viewer.
C12_RunningGatesDisplay ==
    Connecting =>
        /\ tickets = 1 =>
              \/ vm.status = "running"
              \/ SampleCompleted /\ lastSample.exitstatus = "OK"
        /\ launched = 1 =>
              /\ tickets = 1
              /\ spiceconfig # None
              /\ config_string # None
              /\ pc = "conn_returned"
        /\ (StartRejected \/ Failed \/ TimedOut) =>
              /\ tickets = 0
              /\ launched = 0
              /\ spiceconfig = None
              /\ config_string = None

C12_Witness ==
    /\ pc = "conn_returned"
    /\ vm.status = "stopped"
    /\ statusQueries = 2
    /\ launched = 1

(***************************************************************************)
(* Properties of the viewer configuration                                  *)
(***************************************************************************)
Synthesized == pc \in {"conn_returned", "conn_raised"} /\ config_string # None
ticket == spiceconfig.dict
OutKeys == { config_string.lines[n][1] : n \in DOMAIN config_string.lines }
Out(k) == config_string.lines[CHOOSE n \in DOMAIN config_string.lines :
                                 config_string.lines[n][1] = k][3]
ExtraKeys == IF addl_params = None THEN {} ELSE Keys(addl_params.dict)

\* scheme://host[:port] without its scheme prefix.
HasScheme(value) ==
    \/ Len(value) >= 7 /\ SubSeq(value, 1, 7) = Http
    \/ Len(value) >= 8 /\ SubSeq(value, 1, 8) = Https
AfterScheme(value) ==
    IF Len(value) >= 8 /\ SubSeq(value, 1, 8) = Https
    THEN SubSeq(value, 9, Len(value))
    ELSE SubSeq(value, 8, Len(value))
LookupKey(value) == lower(AfterScheme(value))

\* C13: a proxy value scheme://host[:port], http or https, whose host[:port]
\* in lower case is a key of the redirect table comes out as
\* proxy = http://<replacement>, next to the other fields of the ticket.
C13_MappedProxyRewritten ==
    (Synthesized /\ "proxy" \in Keys(ticket) /\ "proxy" \notin ExtraKeys) =>
        LET value == Get(ticket, "proxy").str IN
        (HasScheme(value) /\ LookupKey(value) \in DOMAIN spiceproxy_conv) =>
            /\ "proxy" \in OutKeys
            /\ Out("proxy") = Http \o spiceproxy_conv[LookupKey(value)]
            /\ \A k \in Keys(ticket) : k \in OutKeys

\* C14: every ticket field other than proxy that no extra parameter names
\* is in the one output section with its value, and so is a proxy whose
\* lookup key is not in the redirect table, scheme and letter case kept.
C14_FieldsCopied ==
    Synthesized =>
        /\ config_string.header = "[virt-viewer]"
        /\ \A n \in DOMAIN ticket :
              (ticket[n].key # "proxy" /\ ticket[n].key \notin ExtraKeys) =>
                  /\ ticket[n].key \in OutKeys
                  /\ Out(ticket[n].key) =
                        (IF "int" \in DOMAIN ticket[n].value
                         THEN Decimal(ticket[n].value.int)
                         ELSE ticket[n].value.str)
        /\ ("proxy" \in Keys(ticket) /\ "proxy" \notin ExtraKeys) =>
              LET value == Get(ticket, "proxy").str IN
              LookupKey(value) \notin DOMAIN spiceproxy_conv =>
                  ("proxy" \in OutKeys /\ Out("proxy") = value)

C14_Witness ==
    /\ Synthesized
    /\ launched = 1
    /\ addl_params = None
    /\ spiceproxy_conv = [k \in {Px1} |-> Pub1]
    /\ "tls-port" \in Keys(ticket)
    /\ "proxy" \in Keys(ticket)
    /\ Get(ticket, "proxy").str = Https \o Px2

\* C15: every extra parameter is in the output with its own value, also
\* under a key the ticket has, proxy included.
C15_ExtraParamsWin ==
    (Synthesized /\ addl_params # None) =>
        /\ \A n \in DOMAIN addl_params.dict :
              /\ addl_params.dict[n].key \in OutKeys
              /\ Out(addl_params.dict[n].key) = addl_params.dict[n].value
        /\ \A a, b \in DOMAIN config_string.lines :
              a # b => config_string.lines[a][1] # config_string.lines[b][1]

C15_Witness ==
    /\ Synthesized
    /\ launched = 1
    /\ addl_params # None
    /\ "proxy" \in ExtraKeys
    /\ "proxy" \in Keys(ticket)
    /\ LookupKey(Get(ticket, "proxy").str) \in DOMAIN spiceproxy_conv

(***************************************************************************)
(* Frame of authenticate                                                   *)
(***************************************************************************)
Count(s, e) == Cardinality({ k \in DOMAIN s : s[k] = e })
SameEntries(s, t) ==
    /\ Len(s) = Len(t)
    /\ \A e \in Range(s) \cup Range(t) : Count(s, e) = Count(t, e)
Settings(h) == [f \in DOMAIN h \ {"hostpool"} |-> h[f]]

\* C19: no step of authenticate changes a host-set other than by reordering
\* the pool of the current one: the same entries as often as before, the
\* same backend, principal, token pair and TLS flag, the other host-sets as
\* they were.
C19_OnlyPoolOrderChanges ==
    [][/\ current_hostset' = current_hostset
       /\ DOMAIN hosts' = DOMAIN hosts
       /\ \A hs \in DOMAIN hosts :
             /\ hs # current_hostset => hosts'[hs] = hosts[hs]
             /\ Settings(hosts'[hs]) = Settings(hosts[hs])
             /\ SameEntries(hosts'[hs].hostpool, hosts[hs].hostpool)]_vars

\* A second call has ended after a first one ended.
C19_Witness ==
    /\ pc = "auth_raised"
    /\ proxmox # None
    /\ Len(hostpool) = 3
    /\ Len(attempts) = 1
    /\ attempts[1].outcome = [stage |-> "ctor", result |-> "other"]

(***************************************************************************)
(* Properties of main and main_menu                                        *)
(***************************************************************************)
Principal == hosts[current_hostset].user
AuthFailed == authRet.kind = "raise"
ListingHas(vmid) == \E k \in DOMAIN vms : vms[k].vmid = vmid

\* C20: whenever authenticate is attempted after a successful load_config,
\* the current host-set has at least one pool entry and a non-empty
\* principal.
C20_PoolAndPrincipalAtAuth ==
    authCalls >= 1 => (Len(hostpool) >= 1 /\ Principal # "")

\* C17: in one run of main authenticate is called at most once; when it
\* fails, no directory query, start command, ticket request or viewer launch
\* happens, the menu is not started, and the next thing main does is to
\* return 1.
C17_AuthFailureIsFatal ==
    /\ [](authCalls <= 1)
    /\ [](AuthFailed =>
            /\ pc \in {"auth_raised", "main_done"}
            /\ nodesReply = None /\ vmsReply = None /\ vmsRet = NoRet
            /\ startCmds = 0 /\ statusQueries = 0 /\ tickets = 0 /\ launched = 0
            /\ autoConnects = 0 /\ menuStarts = 0
            /\ pc = "main_done" => mainRet = Return(1))
    /\ [][pc = "auth_raised" => (pc' = "main_done" /\ mainRet' = Return(1))]_vars

\* Both entries of a two-entry pool were unreachable and main has returned 1.
C17_Witness ==
    /\ pc = "main_done"
    /\ authCalls = 1
    /\ Len(hostpool) = 2
    /\ authRet = Raise(PoolExhaustedError)
    /\ mainRet = Return(1)

C17_WitnessRejected ==
    /\ pc = "main_done"
    /\ authRet = Raise(AuthFailedError(LibExc("auth")))
    /\ mainRet = Return(1)

\* C18: with an auto-connect id configured, the scan of the listing made
\* after authentication calls connect_to_vm once, for the first guest with
\* that id, and the menu is never started; when no listed guest has the id
\* the scan makes no connect and starts the menu.  Without a configured id
\* there is no auto-connect.
C18_AutoConnectOrdering ==
    /\ [](/\ autoConnects <= 1 /\ menuStarts <= 1
          /\ autoConnects = 1 =>
                /\ menuStarts = 0
                /\ Truthy(auto_vmid)
                /\ vm.vmid = auto_vmid.int
                /\ \E k \in DOMAIN vms : vms[k].vmid = vm.vmid /\ vms[k].name = vm.name
                /\ pc \in {"conn_poll", "conn_ticket", "conn_returned", "conn_raised",
                           "main_done"}
          /\ menuStarts = 1 => (autoConnects = 0 /\ caller # "main"))
    /\ [][pc = "main_scan" =>
            IF ListingHas(auto_vmid.int)
            THEN autoConnects' = 1 /\ menuStarts' = 0 /\ caller' = "main"
            ELSE autoConnects' = 0 /\ menuStarts' = 1 /\ pc' = "menu_loop"]_vars

\* The configured guest was listed, started and shown; main returned 0.
C18_Witness ==
    /\ pc = "main_done"
    /\ autoConnects = 1
    /\ vm.vmid = G101.vmid /\ vm.status = "stopped"
    /\ auto_vmid = PyInt(101)
    /\ Len(vms) = 2
    /\ launched = 1
    /\ mainRet = Return(0)

\* The configured guest is in the inventory but filtered out of the listing.
C18_WitnessFiltered ==
    /\ pc = "menu_loop"
    /\ auto_vmid = PyInt(102)
    /\ guest_type = "qemu"
    /\ vmsReply = Fetched(<<G101, G102>>)
    /\ vmsRet.kind = "return"
    /\ menuStarts = 1 /\ autoConnects = 0

\* C16 as stated: whenever connect_to_vm raises, from the menu or from
\* auto-connect, main does not terminate.
C16_ConnectErrorNeverTerminates ==
    [][pc = "conn_raised" => pc' # "main_done"]_vars

\* C16 as amended: an exception of connect_to_vm called from the menu leaves
\* main_menu running, and the key press at the "Connection closed" prompt
\* leads to the next listing; an exception of the auto-connect call makes
\* main return 1 without the menu.
C16_MenuSurvivesConnectError ==
    /\ [][(pc = "conn_raised" /\ caller = "menu") =>
            (pc' = "menu_closed_key" /\ mainRet' = NoRet /\ connRet' = connRet)]_vars
    /\ [][pc = "menu_closed_key" => (pc' = "menu_loop" /\ mainRet' = NoRet)]_vars
    /\ [][(pc = "conn_raised" /\ caller = "main") =>
            (pc' = "main_done" /\ mainRet' = Return(1) /\ menuStarts' = 0)]_vars

\* The start of the selected guest timed out and the menu is at its prompt.
C16_Witness ==
    /\ pc = "menu_closed_key"
    /\ connRet = Raise(ConnectError(StartTimeoutError))
    /\ menuStarts = 1
    /\ mainRet = NoRet

MenuConnecting ==
    caller = "menu" /\ pc \in {"conn_poll", "conn_ticket", "conn_returned", "conn_raised"}

\* C21: at every draw of the menu and at every connect made from it the
\* selection index lies within the listing fetched in the same loop
\* iteration, 0 <= selected_idx <= len(vms) - 1, and the guest passed to
\* connect_to_vm is the record of that listing at the selection, whatever
\* keys were pressed and however the listing changed between refreshes.
C21_SelectionValid ==
    /\ [](pc = "menu_key" =>
            /\ vmsRet.kind = "return"
            /\ 0 <= selected_idx /\ selected_idx <= Len(vms) - 1)
    /\ [](MenuConnecting =>
            /\ vmsRet.kind = "return"
            /\ 0 <= selected_idx /\ selected_idx <= Len(vms) - 1
            /\ vm = vms[selected_idx + 1])
    /\ [][(pc = "menu_loop" /\ pc' = "menu_key") =>
            /\ vmsRet' = get_vms(nodesReply', vmsReply', guest_type)
            /\ selected_idx' <= selected_idx]_vars
    /\ [][(pc = "menu_key" /\ MenuConnecting') =>
            (vmsRet' = vmsRet /\ selected_idx' = selected_idx)]_vars

\* The second guest of a two-guest listing is being connected to.
C21_Witness ==
    /\ MenuConnecting
    /\ selected_idx = 1
    /\ Len(vms) = 2
    /\ vm.vmid = 101

\* The selection was moved down and the next listing has one guest only.
C21_WitnessShrunk ==
    /\ pc = "menu_key"
    /\ getch = "KEY_DOWN"
    /\ Len(vms) = 1
    /\ selected_idx = 0
    /\ vmsReply = Fetched(<<G101>>)

InMenu ==
    \/ pc \in {"menu_loop", "menu_key", "menu_error_key", "menu_closed_key", "menu_empty_key"}
    \/ MenuConnecting

\* C22: main_menu returns only on 'q' or 'Q' read at the selection prompt of
\* a listing that is not empty, or on the key read at the prompt of an empty
\* listing; a directory error leads to the error prompt and a connect error
\* to the "Connection closed" prompt, never out of the menu, and whatever key
\* is read at the error prompt, 'q' included, the loop queries the directory
\* again.
C22_MenuReturns ==
    /\ [][(InMenu /\ pc' = "main_done") =>
            /\ \/ /\ pc = "menu_key" /\ getch' \in {"q", "Q"}
                  /\ vmsRet.kind = "return" /\ vms # <<>>
               \/ /\ pc = "menu_empty_key"
                  /\ vmsRet.kind = "return" /\ vms = <<>>
            /\ mainRet' = Return(0)]_vars
    /\ [][(pc = "menu_loop" /\ vmsRet'.kind = "raise") => pc' = "menu_error_key"]_vars
    /\ [][pc = "menu_error_key" =>
            (pc' = "menu_loop" /\ mainRet' = NoRet /\ getch' \in MenuKeys)]_vars
    /\ [][(MenuConnecting /\ pc = "conn_raised") =>
            (pc' = "menu_closed_key" /\ mainRet' = NoRet)]_vars
    /\ [](pc = "menu_error_key" => vmsRet.kind = "raise")
    /\ [](InMenu => mainRet = NoRet)

\* 'q' was pressed at the error prompt after a failed directory query and the
\* loop is about to query again.
C22_Witness ==
    /\ pc = "menu_loop"
    /\ getch = "q"
    /\ vmsRet.kind = "raise"
    /\ mainRet = NoRet

C22_WitnessQuit ==
    /\ pc = "main_done"
    /\ menuStarts = 1
    /\ getch = "Q"
    /\ Len(vms) = 2
    /\ mainRet = Return(0)

C22_WitnessEmpty ==
    /\ pc = "main_done"
    /\ menuStarts = 1
    /\ getch = "x"
    /\ vmsRet = Return(<<>>)
    /\ mainRet = Return(0)

====
